---- MODULE Spec2Model ----
(***************************************************************************)
(* Personal expense tracker ("course project 1/project 1 .py"): the        *)
(* Expense record and its validation, the ExpenseFileManager (CSV and      *)
(* JSON persistence) and the ExpenseTracker with its menu loop.            *)
(*                                                                         *)
(* Conventions of the model                                                *)
(*  - A Python float is a record: a finite value n/d (a reduced fraction,  *)
(*    d > 0), nan, or +/-inf. Arithmetic is exact on the finite values     *)
(*    and follows IEEE-754 on nan and the infinities; comparisons with     *)
(*    nan are false, as in Python.                                         *)
(*  - A text (a CSV cell, a line typed at a prompt) is a record telling    *)
(*    what the text looks like: "YYYY-MM-DD" digits (k = "ymd"), an        *)
(*    integer literal such as 100 (k = "int"), a literal with a fraction   *)
(*    part such as 100.0 (k = "dec"), or any other word (k = "word").      *)
(*    Python's None is the value NoneVal.                                  *)
(***************************************************************************)
EXTENDS Integers, Sequences, FiniteSets, TLC

VARIABLES
    expensesFile,   \* the file expenses.csv on disk
    configFile,     \* the file config.json on disk
    expenses,       \* ExpenseTracker.expenses (or the list a caller holds)
    config,         \* ExpenseTracker.config
    pc,             \* where the process is: new, menu, closed, aborted (caller in SpecFM)
    result          \* what the last operation returned and printed

vars == <<expensesFile, configFile, expenses, config, pc, result>>

(***************************************************************************)
(* Bounds of the model.                                                    *)
(***************************************************************************)
\* Longest expense collection the tracker model lets add_expense build.
MaxExpenses == 2
\* Most data rows in an initial expenses.csv of the file manager model.
MaxFileRows == 2
\* Longest collection handed to track_budget in the reporting model.
MaxReport == 3

(***************************************************************************)
(* Python floats.                                                          *)
(***************************************************************************)
Abs(n) == IF n < 0 THEN -n ELSE n

RECURSIVE GCD(_, _)
GCD(a, b) == IF b = 0 THEN a ELSE GCD(b, a % b)

Rat(n, d) ==
    LET s == IF d < 0 THEN -1 ELSE 1
        g == GCD(Abs(n), Abs(d))
    IN  [k |-> "fin", n |-> (s * n) \div g, d |-> (s * d) \div g]

Fin(n) == [k |-> "fin", n |-> n, d |-> 1]
NaN    == [k |-> "nan", n |-> 0, d |-> 1]
PInf   == [k |-> "inf", n |-> 1, d |-> 1]
NInf   == [k |-> "inf", n |-> -1, d |-> 1]

IsNaN(a) == a.k = "nan"
Sign(a)  == IF a.n > 0 THEN 1 ELSE IF a.n < 0 THEN -1 ELSE 0

\* a < b on floats: false as soon as one side is nan.
FLt(a, b) ==
    /\ ~IsNaN(a)
    /\ ~IsNaN(b)
    /\ CASE a.k = "inf" /\ b.k = "inf" -> a.n < b.n
         [] a.k = "inf" -> a.n < 0
         [] b.k = "inf" -> b.n > 0
         [] OTHER -> a.n * b.d < b.n * a.d

\* a == b on floats: nan equals nothing, itself included.
FEq(a, b) == ~IsNaN(a) /\ ~IsNaN(b) /\ a = b
FLe(a, b) == FLt(a, b) \/ FEq(a, b)
FGt(a, b) == FLt(b, a)
FGe(a, b) == FLe(b, a)

FNeg(a) == IF IsNaN(a) THEN NaN ELSE [a EXCEPT !.n = -a.n]

FAdd(a, b) ==
    CASE IsNaN(a) \/ IsNaN(b) -> NaN
      [] a.k = "inf" /\ b.k = "inf" -> IF a.n = b.n THEN a ELSE NaN
      [] a.k = "inf" -> a
      [] b.k = "inf" -> b
      [] OTHER -> Rat(a.n * b.d + b.n * a.d, a.d * b.d)

FSub(a, b) == FAdd(a, FNeg(b))

FMul(a, b) ==
    CASE IsNaN(a) \/ IsNaN(b) -> NaN
      [] a.k = "inf" \/ b.k = "inf" ->
            IF Sign(a) * Sign(b) = 0 THEN NaN
            ELSE IF Sign(a) * Sign(b) > 0 THEN PInf ELSE NInf
      [] OTHER -> Rat(a.n * b.n, a.d * b.d)

\* a / b for b # 0 (Python raises ZeroDivisionError on b = 0: the callers
\* record that case themselves).
FDiv(a, b) ==
    CASE IsNaN(a) \/ IsNaN(b) -> NaN
      [] a.k = "inf" /\ b.k = "inf" -> NaN
      [] a.k = "inf" -> IF Sign(a) * Sign(b) > 0 THEN PInf ELSE NInf
      [] b.k = "inf" -> Fin(0)
      [] OTHER -> Rat(a.n * b.d, a.d * b.n)

\* sum(...) of a sequence of floats, left to right from 0.
RECURSIVE FSum(_)
FSum(s) == IF s = <<>> THEN Fin(0) ELSE FAdd(FSum(SubSeq(s, 1, Len(s) - 1)), s[Len(s)])

(***************************************************************************)
(* Texts.                                                                  *)
(***************************************************************************)
Ymd(y, m, d) == [k |-> "ymd", a |-> y, b |-> m, c |-> d, w |-> ""]
IntText(n)   == [k |-> "int", a |-> n, b |-> 0, c |-> 0, w |-> ""]
DecText(n)   == [k |-> "dec", a |-> n, b |-> 0, c |-> 0, w |-> ""]
RatioText(n, d) == [k |-> "ratio", a |-> n, b |-> d, c |-> 0, w |-> ""]
Word(w)      == [k |-> "word", a |-> 0, b |-> 0, c |-> 0, w |-> w]
NoneVal      == [k |-> "none", a |-> 0, b |-> 0, c |-> 0, w |-> ""]

\* float(text): the value, or the exception raised.
float(t) ==
    CASE t.k = "none" -> [exc |-> "TypeError", v |-> NaN]
      [] t.k \in {"int", "dec"} -> [exc |-> "none", v |-> Fin(t.a)]
      [] t.k = "ratio" -> [exc |-> "none", v |-> Rat(t.a, t.b)]
      [] t.k = "word" /\ t.w = "nan" -> [exc |-> "none", v |-> NaN]
      [] t.k = "word" /\ t.w = "inf" -> [exc |-> "none", v |-> PInf]
      [] t.k = "word" /\ t.w = "-inf" -> [exc |-> "none", v |-> NInf]
      [] OTHER -> [exc |-> "ValueError", v |-> NaN]

\* str(float), as csv.writer and json.dump write a float. A whole number is
\* written with a fraction part: 100.0.
FloatStr(v) ==
    CASE v.k = "nan" -> Word("nan")
      [] v.k = "inf" -> IF v.n > 0 THEN Word("inf") ELSE Word("-inf")
      [] v.d = 1 -> DecText(v.n)
      [] OTHER -> RatioText(v.n, v.d)

IsLeap(y) == (y % 4 = 0 /\ y % 100 # 0) \/ y % 400 = 0

DaysInMonth(y, m) ==
    CASE m \in {4, 6, 9, 11} -> 30
      [] m = 2 -> IF IsLeap(y) THEN 29 ELSE 28
      [] OTHER -> 31

\* datetime.strptime(text, '%Y-%m-%d'): the exception raised, "none" if the
\* text is a calendar date in that form.
strptime(t) ==
    CASE t.k = "none" -> "TypeError"
      [] /\ t.k = "ymd"
         /\ t.a \in 1..9999
         /\ t.b \in 1..12
         /\ t.c \in 1..DaysInMonth(t.a, t.b) -> "none"
      [] OTHER -> "ValueError"

\* str.strip().title() on the words the model types at the category prompt.
StripTitle(t) ==
    CASE t = Word("food") -> Word("Food")
      [] t = Word(" bills ") -> Word("Bills")
      [] t = Word("  ") -> Word("")
      [] OTHER -> t

(***************************************************************************)
(* Expense.                                                                *)
(***************************************************************************)
\* @dataclass Expense: the four fields.
Expense(date, category, amount, description) ==
    [date |-> date, category |-> category, amount |-> amount,
     description |-> description]

\* Expense.__post_init__: the exception raised by validation, "none" if the
\* record is accepted. amount <= 0 is false for nan.
post_init(e) ==
    IF FLe(e.amount, Fin(0)) THEN "ValueError"
    ELSE strptime(e.date)

\* The dataclass-generated __eq__ of two Expenses built separately: field by
\* field, floats with ==.
ExpenseEq(x, y) ==
    /\ x.date = y.date
    /\ x.category = y.category
    /\ FEq(x.amount, y.amount)
    /\ x.description = y.description

\* list.__eq__ on two lists of Expenses.
ExpensesEq(xs, ys) ==
    /\ Len(xs) = Len(ys)
    /\ \A i \in 1..Len(xs) : ExpenseEq(xs[i], ys[i])

(***************************************************************************)
(* ExpenseFileManager: expenses.csv.                                       *)
(*                                                                         *)
(* A file is absent, unreadable (open() raises) or a text: the header row  *)
(* csv.DictReader takes the field names from, and the data rows, each the  *)
(* sequence of its cells. A text with no header is the empty file.         *)
(***************************************************************************)
fieldnames == <<"date", "category", "amount", "description">>

AbsentFile     == [kind |-> "absent", header |-> <<>>, rows |-> <<>>]
UnreadableFile == [kind |-> "unreadable", header |-> <<>>, rows |-> <<>>]
TextFile(header, rows) == [kind |-> "text", header |-> header, rows |-> rows]
EmptyFile      == TextFile(<<>>, <<>>)

\* row[name] of the dict csv.DictReader builds: KeyError when the header has
\* no such column, None (restval) when the row is too short to reach it.
RowGet(header, row, name) ==
    IF \E i \in 1..Len(header) : header[i] = name
    THEN LET i == CHOOSE j \in 1..Len(header) : header[j] = name
         IN  [exc |-> "none", v |-> IF i <= Len(row) THEN row[i] ELSE NoneVal]
    ELSE [exc |-> "KeyError", v |-> NoneVal]

\* The body of the inner try of load_expenses for one row: the Expense
\* built, or the exception raised on the way, in evaluation order.
ParseRow(header, row) ==
    LET d == RowGet(header, row, "date")
        c == RowGet(header, row, "category")
        a == RowGet(header, row, "amount")
        f == float(a.v)
        s == RowGet(header, row, "description")
        e == Expense(d.v, c.v, f.v, s.v)
    IN  IF d.exc # "none" THEN [exc |-> d.exc, e |-> e]
        ELSE IF c.exc # "none" THEN [exc |-> c.exc, e |-> e]
        ELSE IF a.exc # "none" THEN [exc |-> a.exc, e |-> e]
        ELSE IF f.exc # "none" THEN [exc |-> f.exc, e |-> e]
        ELSE IF s.exc # "none" THEN [exc |-> s.exc, e |-> e]
        ELSE [exc |-> post_init(e), e |-> e]

\* The for loop of load_expenses from the first of rows on: ValueError and
\* KeyError are caught per row (a warning is printed); any other exception
\* leaves the loop and is caught by the outer handler (an error is printed).
RECURSIVE LoadRows(_, _)
LoadRows(header, rows) ==
    IF rows = <<>> THEN [expenses |-> <<>>, warnings |-> 0, error |-> FALSE]
    ELSE LET p == ParseRow(header, Head(rows))
             rest == LoadRows(header, Tail(rows))
         IN  IF p.exc = "none" THEN [rest EXCEPT !.expenses = <<p.e>> \o @]
             ELSE IF p.exc \in {"ValueError", "KeyError"}
                  THEN [rest EXCEPT !.warnings = @ + 1]
             ELSE [expenses |-> <<>>, warnings |-> 0, error |-> TRUE]

\* ExpenseFileManager.load_expenses: the list returned, the number of
\* "Skipping invalid expense" warnings and whether "Error loading expenses"
\* was printed.
load_expenses(file) ==
    CASE file.kind = "absent" -> [expenses |-> <<>>, warnings |-> 0, error |-> FALSE]
      [] file.kind = "unreadable" -> [expenses |-> <<>>, warnings |-> 0, error |-> TRUE]
      [] OTHER -> LoadRows(file.header, file.rows)

\* csv.writer's text of a cell: a string as it is, None as the empty string.
CsvCell(v) == IF v = NoneVal THEN Word("") ELSE v

\* writer.writerow(expense.to_dict()).
RowOf(e) == <<CsvCell(e.date), CsvCell(e.category), FloatStr(e.amount),
              CsvCell(e.description)>>

RowsOf(xs) == [i \in 1..Len(xs) |-> RowOf(xs[i])]

\* What can happen to a write of xs: it succeeds, open() fails, or a write
\* fails after `flushed` rows reached the disk (-1: not even the header).
\* Nothing is written for an empty list, so no write can fail.
IoOutcomes(xs) ==
    {[kind |-> "ok", flushed |-> Len(xs)], [kind |-> "open_fails", flushed |-> 0]}
    \cup (IF xs = <<>> THEN {}
          ELSE {[kind |-> "write_fails", flushed |-> n] : n \in (-1)..(Len(xs) - 1)})

\* ExpenseFileManager.save_expenses: the file afterwards and the value
\* returned. open(..., 'w') truncates; an empty list returns True before the
\* header is written.
\* A faulty variant: the file is opened for appending.
MutSaveExpensesAppend(file, xs, io) ==
    IF io.kind = "open_fails" THEN [file |-> file, ok |-> FALSE]
    ELSE IF xs = <<>> THEN [file |-> EmptyFile, ok |-> TRUE]
    ELSE IF io.kind = "write_fails"
         THEN [file |-> IF io.flushed < 0 THEN EmptyFile
                        ELSE TextFile(fieldnames, SubSeq(RowsOf(xs), 1, io.flushed)),
               ok |-> FALSE]
    ELSE [file |-> TextFile(fieldnames, file.rows \o RowsOf(xs)), ok |-> TRUE]

\* A faulty variant: an empty list returns True before the file is opened.
MutSaveExpensesKeepOnEmpty(file, xs, io) ==
    IF io.kind = "open_fails" THEN [file |-> file, ok |-> FALSE]
    ELSE IF xs = <<>> THEN [file |-> file, ok |-> TRUE]
    ELSE IF io.kind = "write_fails"
         THEN [file |-> IF io.flushed < 0 THEN EmptyFile
                        ELSE TextFile(fieldnames, SubSeq(RowsOf(xs), 1, io.flushed)),
               ok |-> FALSE]
    ELSE [file |-> TextFile(fieldnames, RowsOf(xs)), ok |-> TRUE]

\* The method as written.
save_expenses(file, xs, io) ==
    IF io.kind = "open_fails" THEN [file |-> file, ok |-> FALSE]
    ELSE IF xs = <<>> THEN [file |-> EmptyFile, ok |-> TRUE]
    ELSE IF io.kind = "write_fails"
         THEN [file |-> IF io.flushed < 0 THEN EmptyFile
                        ELSE TextFile(fieldnames, SubSeq(RowsOf(xs), 1, io.flushed)),
               ok |-> FALSE]
    ELSE [file |-> TextFile(fieldnames, RowsOf(xs)), ok |-> TRUE]

(***************************************************************************)
(* ExpenseFileManager: config.json.                                        *)
(*                                                                         *)
(* The file is absent, malformed (json.load raises), a JSON array, or a    *)
(* JSON object that has the key monthly_budget or not. A config in memory  *)
(* is what json.load returned: a dict (has: whether the key is there) or a *)
(* list.                                                                   *)
(***************************************************************************)
ConfigDict(has, v) == [kind |-> "dict", has |-> has, monthly_budget |-> v]
ConfigList         == [kind |-> "list", has |-> FALSE, monthly_budget |-> Fin(0)]
DefaultConfig      == ConfigDict(TRUE, Fin(0))

AbsentConfigFile    == [kind |-> "absent", has |-> FALSE, monthly_budget |-> Fin(0)]
MalformedConfigFile == [kind |-> "malformed", has |-> FALSE, monthly_budget |-> Fin(0)]
ArrayConfigFile     == [kind |-> "array", has |-> FALSE, monthly_budget |-> Fin(0)]
ObjectConfigFile(has, v) == [kind |-> "object", has |-> has, monthly_budget |-> v]

\* ExpenseFileManager.load_config: json.load's value is returned as it is.
load_config(file) ==
    CASE file.kind \in {"absent", "malformed"} -> DefaultConfig
      [] file.kind = "array" -> ConfigList
      [] OTHER -> ConfigDict(file.has, file.monthly_budget)

\* ExpenseFileManager.save_config: a failed write leaves a truncated file.
save_config(file, cfg, io) ==
    CASE io = "open_fails" -> [file |-> file, ok |-> FALSE]
      [] io = "write_fails" -> [file |-> MalformedConfigFile, ok |-> FALSE]
      [] OTHER -> [file |-> ObjectConfigFile(cfg.has, cfg.monthly_budget), ok |-> TRUE]

\* config.get("monthly_budget", 0.0)
ConfigGet(cfg) == IF cfg.has THEN cfg.monthly_budget ELSE Fin(0)

(***************************************************************************)
(* ExpenseTracker: input validation.                                       *)
(*                                                                         *)
(* A prompt loop reads the lines typed, in order, until one is accepted.   *)
(* When the lines run out the next input() raises EOFError (Ctrl-D).       *)
(***************************************************************************)
\* ExpenseTracker.get_valid_date; today is datetime.now()'s date.
RECURSIVE get_valid_date(_, _)
get_valid_date(typed, today) ==
    IF typed = <<>> THEN [exc |-> "EOFError", v |-> NoneVal]
    ELSE IF Head(typed) = Word("today") THEN [exc |-> "none", v |-> today]
    ELSE IF strptime(Head(typed)) = "none" THEN [exc |-> "none", v |-> Head(typed)]
    ELSE get_valid_date(Tail(typed), today)

\* ExpenseTracker.get_valid_amount
RECURSIVE get_valid_amount(_)
get_valid_amount(typed) ==
    IF typed = <<>> THEN [exc |-> "EOFError", v |-> NaN]
    ELSE LET f == float(Head(typed))
         IN  IF f.exc = "none" /\ ~FLe(f.v, Fin(0)) THEN [exc |-> "none", v |-> f.v]
             ELSE get_valid_amount(Tail(typed))

\* ExpenseTracker.get_valid_category
RECURSIVE get_valid_category(_)
get_valid_category(typed) ==
    IF typed = <<>> THEN [exc |-> "EOFError", v |-> NoneVal]
    ELSE IF StripTitle(Head(typed)) # Word("")
         THEN [exc |-> "none", v |-> StripTitle(Head(typed))]
    ELSE get_valid_category(Tail(typed))

\* input("Enter description (optional): ").strip()
get_description(typed) ==
    IF typed = <<>> THEN [exc |-> "EOFError", v |-> NoneVal]
    ELSE [exc |-> "none", v |-> Head(typed)]

(***************************************************************************)
(* ExpenseTracker: the operations.                                         *)
(***************************************************************************)
\* ExpenseTracker.add_expense on the collection xs: the collection
\* afterwards and what was printed. Every exception of the try block is
\* caught and printed.
\* A faulty variant: the Expense is appended before the description is read.
MutAddExpenseAppendFirst(xs, dates, cats, amounts, descs, today) ==
    LET d == get_valid_date(dates, today)
        c == get_valid_category(cats)
        a == get_valid_amount(amounts)
        s == get_description(descs)
        e == Expense(d.v, c.v, a.v, s.v)
        exc == IF d.exc # "none" THEN d.exc
               ELSE IF c.exc # "none" THEN c.exc
               ELSE IF a.exc # "none" THEN a.exc
               ELSE IF s.exc # "none" THEN s.exc
               ELSE post_init(e)
    IN  [expenses |-> IF d.exc = "none" /\ c.exc = "none" /\ a.exc = "none"
                      THEN Append(xs, e) ELSE xs,
         result |-> IF exc = "none"
                    THEN [op |-> "add_expense", ok |-> TRUE, exc |-> exc, expense |-> e]
                    ELSE [op |-> "add_expense", ok |-> FALSE, exc |-> exc]]

\* The method as written.
add_expense(xs, dates, cats, amounts, descs, today) ==
    LET d == get_valid_date(dates, today)
        c == get_valid_category(cats)
        a == get_valid_amount(amounts)
        s == get_description(descs)
        e == Expense(d.v, c.v, a.v, s.v)
        exc == IF d.exc # "none" THEN d.exc
               ELSE IF c.exc # "none" THEN c.exc
               ELSE IF a.exc # "none" THEN a.exc
               ELSE IF s.exc # "none" THEN s.exc
               ELSE post_init(e)
    IN  [expenses |-> IF exc = "none" THEN Append(xs, e) ELSE xs,
         result |-> IF exc = "none"
                    THEN [op |-> "add_expense", ok |-> TRUE, exc |-> exc, expense |-> e]
                    ELSE [op |-> "add_expense", ok |-> FALSE, exc |-> exc]]

Amounts(xs) == [i \in 1..Len(xs) |-> xs[i].amount]

\* ExpenseTracker.view_all_expenses: the table, the total and the count.
view_all_expenses(xs) ==
    IF xs = <<>> THEN [op |-> "view_all_expenses", shown |-> <<>>]
    ELSE [op |-> "view_all_expenses", shown |-> xs, total |-> FSum(Amounts(xs)),
          count |-> Len(xs)]

\* sorted(xs, key=amount, reverse=True): stable, highest amount first. Each
\* element goes behind the elements that are not smaller than it.
RECURSIVE SortedDesc(_)
SortedDesc(xs) ==
    IF xs = <<>> THEN <<>>
    ELSE LET done == SortedDesc(SubSeq(xs, 1, Len(xs) - 1))
             x == xs[Len(xs)]
             keep == {i \in 0..Len(done) :
                        \A j \in (i + 1)..Len(done) : FLt(done[j].amount, x.amount)}
             at == CHOOSE i \in keep : \A j \in keep : i <= j
         IN  SubSeq(done, 1, at) \o <<x>> \o SubSeq(done, at + 1, Len(done))

\* ExpenseTracker.view_expenses_sorted
view_expenses_sorted(xs) == [op |-> "view_expenses_sorted", shown |-> SortedDesc(xs)]

\* str.lower() on the category words of the model.
Lower(t) ==
    CASE t = Word("Food") -> Word("food")
      [] t = Word("Bills") -> Word("bills")
      [] t = Word("Transport") -> Word("transport")
      [] OTHER -> t

\* ExpenseTracker._get_expenses_by_category, consumed into a list.
get_expenses_by_category(xs, category) ==
    SelectSeq(xs, LAMBDA e : Lower(e.category) = Lower(category))

\* ExpenseTracker.view_expenses_by_category; typed is the category typed at
\* the prompt, which is shown only when there are expenses.
view_expenses_by_category(xs, typed) ==
    IF xs = <<>> THEN [op |-> "view_expenses_by_category", shown |-> <<>>]
    ELSE LET found == get_expenses_by_category(xs, StripTitle(typed))
         IN  IF found = <<>> THEN [op |-> "view_expenses_by_category", shown |-> <<>>]
             ELSE [op |-> "view_expenses_by_category", shown |-> found,
                   total |-> FSum(Amounts(found))]

\* ExpenseTracker.set_budget: the loop reads until a number that is not
\* negative is typed. EOFError is not caught here.
RECURSIVE set_budget(_, _)
set_budget(cfg, typed) ==
    IF typed = <<>> THEN [config |-> cfg, exc |-> "EOFError"]
    ELSE LET f == float(Head(typed))
         IN  IF f.exc = "none" /\ ~FLt(f.v, Fin(0))
             THEN [config |-> ConfigDict(TRUE, f.v), exc |-> "none"]
             ELSE set_budget(cfg, Tail(typed))

\* ExpenseTracker.track_budget: what is printed. divided tells whether
\* total_expenses / budget was evaluated.
\* A faulty variant: the early return on budget == 0 is missing.
MutTrackBudgetNoGuard(xs, cfg) ==
    LET budget == ConfigGet(cfg)
        total_expenses == FSum(Amounts(xs))
        remaining == FSub(budget, total_expenses)
        divided == FGt(budget, Fin(0))
        percentage_used == IF divided
                           THEN FMul(FDiv(total_expenses, budget), Fin(100))
                           ELSE Fin(0)
    IN  [op |-> "track_budget",
         status |-> IF FGe(remaining, Fin(0)) THEN "remaining" ELSE "over_budget",
         budget |-> budget, divided |-> divided,
         total_expenses |-> total_expenses, remaining |-> remaining,
         percentage_used |-> percentage_used,
         warning |-> FGe(remaining, Fin(0)) /\ FGt(percentage_used, Fin(80))]

\* The method as written.
track_budget(xs, cfg) ==
    LET budget == ConfigGet(cfg)
        total_expenses == FSum(Amounts(xs))
        remaining == FSub(budget, total_expenses)
        divided == FGt(budget, Fin(0))
        percentage_used == IF divided
                           THEN FMul(FDiv(total_expenses, budget), Fin(100))
                           ELSE Fin(0)
    IN  IF FEq(budget, Fin(0))
        THEN [op |-> "track_budget", status |-> "no_budget", budget |-> budget,
              divided |-> FALSE]
        ELSE [op |-> "track_budget",
              status |-> IF FGe(remaining, Fin(0)) THEN "remaining" ELSE "over_budget",
              budget |-> budget, divided |-> divided,
              total_expenses |-> total_expenses, remaining |-> remaining,
              percentage_used |-> percentage_used,
              warning |-> FGe(remaining, Fin(0)) /\ FGt(percentage_used, Fin(80))]

\* ExpenseTracker.save_data: both files are written, whatever the first
\* write returned.
\* A faulty variant: "or" in place of "and".
MutSaveDataEither(efile, cfile, xs, cfg, ioE, ioC) ==
    LET e == save_expenses(efile, xs, ioE)
        c == save_config(cfile, cfg, ioC)
    IN  [expensesFile |-> e.file, configFile |-> c.file,
         expenses_saved |-> e.ok, config_saved |-> c.ok, ok |-> e.ok \/ c.ok]

\* The method as written.
save_data(efile, cfile, xs, cfg, ioE, ioC) ==
    LET e == save_expenses(efile, xs, ioE)
        c == save_config(cfile, cfg, ioC)
    IN  [expensesFile |-> e.file, configFile |-> c.file,
         expenses_saved |-> e.ok, config_saved |-> c.ok, ok |-> e.ok /\ c.ok]

\* The SAVE_EXIT case of run: whether the loop is left, given save_data's
\* value and the answer to "Save failed. Exit anyway? (y/n)".
\* A faulty variant: the loop is left whatever the answer.
MutSaveExitAlways(saved, answer) == TRUE

\* The case as written.
SaveExitBreaks(saved, answer) == saved \/ answer = "y"

(***************************************************************************)
(* The values the models draw from.                                        *)
(***************************************************************************)
SeqsUpTo(S, n) == UNION {[1..m -> S] : m \in 0..n}

LeapDay    == Ymd(2024, 2, 29)
NoSuchDay  == Ymd(2023, 2, 29)
Today      == Ymd(2026, 11, 6)

ValidRow == <<LeapDay, Word("Food"), IntText(100), Word("lunch")>>
NanRow   == <<LeapDay, Word("Food"), Word("nan"), Word("lunch")>>
ShortRow == <<LeapDay, Word("Food")>>

\* The expenses.csv the tracker starts from.
TrackerFiles ==
    {AbsentFile, UnreadableFile, TextFile(fieldnames, <<ValidRow>>),
     TextFile(fieldnames, <<NanRow>>),
     TextFile(fieldnames, <<ValidRow, ShortRow, ValidRow>>)}

\* The config.json the tracker starts from.
ConfigFiles ==
    {AbsentConfigFile, MalformedConfigFile, ArrayConfigFile,
     ObjectConfigFile(FALSE, Fin(0)), ObjectConfigFile(TRUE, Fin(-50)),
     ObjectConfigFile(TRUE, Fin(120))}

Typed(dates, cats, amounts, descs) ==
    [dates |-> dates, cats |-> cats, amounts |-> amounts, descs |-> descs]

\* What is typed at the four prompts of add_expense: accepted at once,
\* accepted after rejected lines, the amount nan, and Ctrl-D at each prompt.
AddTyped ==
    {Typed(<<LeapDay>>, <<Word("food")>>, <<IntText(100)>>, <<Word("lunch")>>),
     Typed(<<NoSuchDay, Word("15/01/2024"), Word("today")>>,
           <<Word("  "), Word("Food")>>,
           <<Word("abc"), IntText(0), IntText(-5), DecText(50)>>,
           <<Word("lunch")>>),
     Typed(<<LeapDay>>, <<Word("food")>>, <<Word("nan")>>, <<Word("lunch")>>),
     Typed(<<NoSuchDay>>, <<>>, <<>>, <<>>),
     Typed(<<LeapDay>>, <<Word("  ")>>, <<>>, <<>>),
     Typed(<<LeapDay>>, <<Word("food")>>, <<IntText(-5)>>, <<>>),
     Typed(<<LeapDay>>, <<Word("food")>>, <<IntText(100)>>, <<>>)}

\* What is typed at the prompt of set_budget.
BudgetTyped ==
    {<<>>, <<Word("abc"), IntText(-5), IntText(0)>>, <<IntText(120)>>}

\* What is typed at the prompt of view_expenses_by_category.
FilterTyped == {Word("food"), Word("rent")}

\* How the write of config.json can end.
ConfigIo == {"ok", "open_fails", "write_fails"}

(***************************************************************************)
(* The tracker: main() builds the ExpenseTracker and runs the menu loop.   *)
(***************************************************************************)
\* ExpenseTracker.__init__ before load_data, with the files found on disk.
Init ==
    /\ expensesFile \in TrackerFiles
    /\ configFile \in ConfigFiles
    /\ expenses = <<>>
    /\ config = DefaultConfig
    /\ pc = "new"
    /\ result = [op |-> "none"]

\* ExpenseTracker.load_data, then run() reaches the menu. A config that is
\* not a dict has no get(): the AttributeError ends the process.
load_data ==
    /\ pc = "new"
    /\ LET l == load_expenses(expensesFile)
           c == load_config(configFile)
       IN  /\ expenses' = l.expenses
           /\ config' = c
           /\ pc' = IF c.kind = "list" THEN "aborted" ELSE "menu"
           /\ result' = [op |-> "load_data", warnings |-> l.warnings,
                         error |-> l.error]
    /\ UNCHANGED <<expensesFile, configFile>>

\* case MenuOption.ADD_EXPENSE
run_add_expense ==
    /\ pc = "menu"
    /\ Len(expenses) < MaxExpenses
    /\ \E t \in AddTyped :
          LET r == add_expense(expenses, t.dates, t.cats, t.amounts, t.descs, Today)
          IN  /\ expenses' = r.expenses
              /\ result' = r.result
    /\ UNCHANGED <<expensesFile, configFile, config, pc>>

\* case MenuOption.VIEW_ALL
run_view_all ==
    /\ pc = "menu"
    /\ result' = view_all_expenses(expenses)
    /\ UNCHANGED <<expensesFile, configFile, expenses, config, pc>>

\* case MenuOption.VIEW_SORTED
run_view_sorted ==
    /\ pc = "menu"
    /\ result' = view_expenses_sorted(expenses)
    /\ UNCHANGED <<expensesFile, configFile, expenses, config, pc>>

\* case MenuOption.VIEW_BY_CATEGORY
run_view_by_category ==
    /\ pc = "menu"
    /\ \E typed \in FilterTyped : result' = view_expenses_by_category(expenses, typed)
    /\ UNCHANGED <<expensesFile, configFile, expenses, config, pc>>

\* case MenuOption.SET_BUDGET; an EOFError leaves set_budget and run.
run_set_budget ==
    /\ pc = "menu"
    /\ \E typed \in BudgetTyped :
          LET r == set_budget(config, typed)
          IN  /\ config' = r.config
              /\ pc' = IF r.exc = "none" THEN "menu" ELSE "aborted"
              /\ result' = [op |-> "set_budget", exc |-> r.exc]
    /\ UNCHANGED <<expensesFile, configFile, expenses>>

\* case MenuOption.TRACK_BUDGET
run_track_budget ==
    /\ pc = "menu"
    /\ result' = track_budget(expenses, config)
    /\ UNCHANGED <<expensesFile, configFile, expenses, config, pc>>

\* case MenuOption.SAVE_EXIT
run_save_exit ==
    /\ pc = "menu"
    /\ \E ioE \in IoOutcomes(expenses), ioC \in ConfigIo, answer \in {"y", "n"} :
          LET r == save_data(expensesFile, configFile, expenses, config, ioE, ioC)
          IN  /\ expensesFile' = r.expensesFile
              /\ configFile' = r.configFile
              /\ pc' = IF SaveExitBreaks(r.ok, answer) THEN "closed" ELSE "menu"
              /\ result' = [op |-> "save_data", ok |-> r.ok,
                            expenses_saved |-> r.expenses_saved,
                            config_saved |-> r.config_saved,
                            ioE |-> ioE.kind, ioC |-> ioC,
                            answer |-> IF r.ok THEN "" ELSE answer]
    /\ UNCHANGED <<expenses, config>>

\* case _
run_invalid_choice ==
    /\ pc = "menu"
    /\ result' = [op |-> "invalid_choice"]
    /\ UNCHANGED <<expensesFile, configFile, expenses, config, pc>>

\* EOFError at the menu prompt or at "Press Enter to continue": run does not
\* catch it.
run_eof ==
    /\ pc = "menu"
    /\ pc' = "aborted"
    /\ result' = [op |-> "EOFError"]
    /\ UNCHANGED <<expensesFile, configFile, expenses, config>>

Next ==
    \/ load_data
    \/ run_add_expense
    \/ run_view_all
    \/ run_view_sorted
    \/ run_view_by_category
    \/ run_set_budget
    \/ run_track_budget
    \/ run_save_exit
    \/ run_invalid_choice
    \/ run_eof

Spec == Init /\ [][Next]_vars

(***************************************************************************)
(* The file manager on its own: a caller saves lists of Expenses to        *)
(* expenses.csv and loads them back. expenses is the list of the last      *)
(* save_expenses that returned True, result.expenses the list              *)
(* load_expenses returned.                                                 *)
(***************************************************************************)
\* Rows of a stored file: two valid rows, and the ways a row can be bad.
ManagerRows ==
    {ValidRow,
     <<Ymd(2024, 3, 1), Word("Transport"), DecText(50), Word("")>>,
     <<LeapDay, Word("Food"), Word("abc"), Word("x")>>,
     <<LeapDay, Word("Food"), IntText(0), Word("x")>>,
     <<NoSuchDay, Word("Food"), IntText(5), Word("x")>>,
     <<LeapDay, Word("Food")>>,
     <<LeapDay, Word("Food"), IntText(7)>>,
     NanRow}

\* A header without the amount column.
ShortHeader == <<"date", "category", "description">>

ManagerFiles ==
    {AbsentFile, UnreadableFile, EmptyFile}
    \cup {TextFile(fieldnames, rows) : rows \in SeqsUpTo(ManagerRows, MaxFileRows)}
    \cup {TextFile(ShortHeader, rows) : rows \in SeqsUpTo({ValidRow}, MaxFileRows)}

\* Expenses a caller can hold: each passes __post_init__.
ManagerExpenses ==
    {Expense(LeapDay, Word("Food"), Fin(100), Word("lunch")),
     Expense(Ymd(2024, 3, 1), Word("Transport"), PInf, Word("")),
     Expense(LeapDay, Word("Food"), NaN, Word("lunch")),
     Expense(LeapDay, Word("Food"), Fin(7), NoneVal)}

InitFM ==
    /\ expensesFile \in ManagerFiles
    /\ configFile = AbsentConfigFile
    /\ expenses = <<>>
    /\ config = DefaultConfig
    /\ pc = "caller"
    /\ result = [op |-> "none"]

\* A call of ExpenseFileManager.load_expenses.
call_load_expenses ==
    /\ pc = "caller"
    /\ LET l == load_expenses(expensesFile)
       IN  result' = [op |-> "load_expenses", expenses |-> l.expenses,
                      warnings |-> l.warnings, error |-> l.error,
                      saved |-> result.op = "save_expenses" /\ result.ok]
    /\ UNCHANGED <<expensesFile, configFile, expenses, config, pc>>

\* A call of ExpenseFileManager.save_expenses.
call_save_expenses ==
    /\ pc = "caller"
    /\ \E xs \in SeqsUpTo(ManagerExpenses, MaxFileRows) :
          \E io \in IoOutcomes(xs) :
             LET r == save_expenses(expensesFile, xs, io)
             IN  /\ expensesFile' = r.file
                 /\ expenses' = IF r.ok THEN xs ELSE expenses
                 /\ result' = [op |-> "save_expenses", ok |-> r.ok,
                               replaced |-> expensesFile.rows # <<>>]
    /\ UNCHANGED <<configFile, config, pc>>

NextFM == call_load_expenses \/ call_save_expenses

SpecFM == InitFM /\ [][NextFM]_vars

(***************************************************************************)
(* Budget tracking on its own: track_budget on the collections and the     *)
(* configurations a tracker can hold.                                      *)
(***************************************************************************)
ReportExpenses ==
    {Expense(LeapDay, Word("Food"), Fin(100), Word("")),
     Expense(LeapDay, Word("Food"), Fin(50), Word("")),
     Expense(LeapDay, Word("Transport"), Fin(30), Word("")),
     Expense(LeapDay, Word("Food"), PInf, Word("")),
     Expense(LeapDay, Word("Food"), NaN, Word(""))}

ReportConfigs ==
    {ConfigDict(FALSE, Fin(0)), ConfigDict(TRUE, Fin(0)), ConfigDict(TRUE, Fin(120)),
     ConfigDict(TRUE, Fin(180)), ConfigDict(TRUE, Fin(-50)), ConfigDict(TRUE, PInf),
     ConfigDict(TRUE, NaN)}

InitReport ==
    /\ expensesFile = AbsentFile
    /\ configFile = AbsentConfigFile
    /\ expenses \in SeqsUpTo(ReportExpenses, MaxReport)
    /\ config \in ReportConfigs
    /\ pc = "menu"
    /\ result = [op |-> "none"]

NextReport == run_track_budget

SpecReport == InitReport /\ [][NextReport]_vars

(***************************************************************************)
(* The properties.                                                         *)
(***************************************************************************)
\* What the data model asks of an Expense: amount > 0, a date that parses
\* as a calendar date, and texts for category and description.
ValidExpense(e) ==
    /\ FGt(e.amount, Fin(0))
    /\ strptime(e.date) = "none"
    /\ e.category # NoneVal
    /\ e.description # NoneVal

AllValid(xs) == \A i \in 1..Len(xs) : ValidExpense(xs[i])

\* C1: a call of add_expense either appends exactly the new Expense at the
\* end of the collection (validation succeeded) or leaves the collection as
\* it was (an error was caught and printed).
C1_AddExpenseAppendsOrKeeps ==
    [][result'.op = "add_expense" =>
          IF result'.ok THEN expenses' = Append(expenses, result'.expense)
          ELSE expenses' = expenses]_vars

\* C1 happens: an Expense was added behind a different one.
C1_Added ==
    /\ result.op = "add_expense"
    /\ result.ok
    /\ Len(expenses) >= 2
    /\ expenses[Len(expenses)] = result.expense
    /\ expenses[1] # result.expense

\* C2: every Expense of the collection has amount > 0 and a date that
\* parses as a calendar date.
C2_EveryExpenseValid ==
    \A i \in 1..Len(expenses) :
        /\ FGt(expenses[i].amount, Fin(0))
        /\ strptime(expenses[i].date) = "none"

\* C3: save_data reports success exactly when both writes succeeded, and
\* whatever the writes did, the collection and the configuration in memory
\* are as before.
C3_PersistNeedsBothWrites ==
    [][result'.op = "save_data" =>
          /\ result'.ok <=> (result'.ioE = "ok" /\ result'.ioC = "ok")
          /\ expenses' = expenses
          /\ config' = config]_vars

\* C3 happens: one write succeeded, the other failed, with expenses held.
C3_PartialFailure ==
    /\ result.op = "save_data"
    /\ result.expenses_saved # result.config_saved
    /\ ~result.ok
    /\ expenses # <<>>

\* C4: a list of valid Expenses (the empty list too) that was saved with
\* success is what load_expenses returns next: same length, same order,
\* equal fields.
C4_RoundTrip ==
    (result.op = "load_expenses" /\ result.saved /\ AllValid(expenses))
        => ExpensesEq(result.expenses, expenses)

\* C4 happens: two different valid Expenses
\* were saved and loaded back.
C4_LoadedAfterSave ==
    /\ result.op = "load_expenses"
    /\ result.saved
    /\ AllValid(expenses)
    /\ Len(expenses) >= 2
    /\ expenses[1] # expenses[2]

\* C5 as stated: a successful save of the empty list leaves a file holding
\* exactly the header row and no data rows.
C5_EmptySaveWritesHeader ==
    (result.op = "save_expenses" /\ result.ok /\ expenses = <<>>)
        => expensesFile = TextFile(fieldnames, <<>>)

\* C5 amended: a successful save replaces the file's contents: by nothing
\* at all (no header row either) for the empty list, otherwise by the header
\* row and one row per Expense, in order, with its four fields.
C5_SaveReplacesContents ==
    (result.op = "save_expenses" /\ result.ok) =>
        IF expenses = <<>> THEN expensesFile = EmptyFile
        ELSE /\ expensesFile.kind = "text"
             /\ expensesFile.header = fieldnames
             /\ Len(expensesFile.rows) = Len(expenses)
             /\ \A i \in 1..Len(expenses) :
                   LET row == expensesFile.rows[i]
                       e == expenses[i]
                   IN  /\ Len(row) = 4
                       /\ row[1] = e.date
                       /\ row[2] = e.category
                       /\ float(row[3]) = [exc |-> "none", v |-> e.amount]
                       /\ row[4] = IF e.description = NoneVal THEN Word("")
                                   ELSE e.description

\* C5 happens: the empty list was saved over a file that had data rows.
C5_EmptySavedOverRows ==
    /\ result.op = "save_expenses"
    /\ result.ok
    /\ result.replaced
    /\ expenses = <<>>

\* A stored row as C6 reads it: valid when it has the four columns, a
\* numeric amount > 0 and a date that parses.
ClaimRowValid(header, row) ==
    /\ \A i \in 1..4 : RowGet(header, row, fieldnames[i]).exc = "none"
    /\ \A i \in 1..4 : RowGet(header, row, fieldnames[i]).v # NoneVal
    /\ float(RowGet(header, row, "amount").v).exc = "none"
    /\ FGt(float(RowGet(header, row, "amount").v).v, Fin(0))
    /\ strptime(RowGet(header, row, "date").v) = "none"

ClaimRowExpense(header, row) ==
    Expense(RowGet(header, row, "date").v, RowGet(header, row, "category").v,
            float(RowGet(header, row, "amount").v).v,
            RowGet(header, row, "description").v)

\* C6: load_expenses returns exactly the valid rows in file order, prints
\* one skip warning for each invalid row and never gives up on the file for
\* a bad row; an absent file gives the empty list and no error.
C6_LoadSkipsInvalidRows ==
    result.op = "load_expenses" =>
        LET h == expensesFile.header
            rows == expensesFile.rows
            good == SelectSeq(rows, LAMBDA r : ClaimRowValid(h, r))
        IN  /\ result.expenses = [i \in 1..Len(good) |-> ClaimRowExpense(h, good[i])]
            /\ result.warnings = Len(rows) - Len(good)
            /\ expensesFile.kind # "unreadable" => ~result.error

\* C7: with a budget equal to 0 track_budget prints "No budget set" and
\* evaluates no division, whatever the collection holds; the division is
\* evaluated only with a budget > 0.
C7_NoDivisionWithoutBudget ==
    result.op = "track_budget" =>
        /\ FEq(ConfigGet(config), Fin(0)) =>
              (result.status = "no_budget" /\ ~result.divided)
        /\ result.divided => FGt(ConfigGet(config), Fin(0))

\* C7 happens: no budget is set and the collection is not empty.
C7_NoBudgetWithExpenses ==
    /\ result.op = "track_budget"
    /\ result.status = "no_budget"
    /\ FEq(ConfigGet(config), Fin(0))
    /\ expenses # <<>>

\* C8: the monthly budget of a running tracker is never negative.
C8_BudgetNeverNegative ==
    pc \in {"menu", "closed"} => FGe(ConfigGet(config), Fin(0))

\* C9 as stated: the run loop is left only after a persist that succeeded.
C9_ClosedOnlySaved ==
    pc = "closed" => (result.op = "save_data" /\ result.ok)

\* C9 amended: the run loop is left (Closed) only by the save-and-exit
\* choice, after a persist that succeeded or after a persist that failed
\* and the answer y to "Exit anyway?"; nothing runs once it is left. From
\* load_data on the process is at the menu, closed, or ended by an error
\* that nothing catches.
C9_ClosedOnlyBySaveExit ==
    [][/\ pc # "closed"
       /\ pc' \in {"menu", "closed", "aborted"}
       /\ pc' = "closed" =>
             /\ result'.op = "save_data"
             /\ result'.ok \/ result'.answer = "y"]_vars

\* C9 happens: the loop was left after a failed persist.
C9_ClosedAfterFailedSave ==
    /\ pc = "closed"
    /\ result.op = "save_data"
    /\ ~result.ok
    /\ result.answer = "y"

\* C10: with a budget > 0 track_budget prints spent = the sum of the
\* amounts, remaining = budget - spent, percent used = spent / budget * 100,
\* and "Over Budget" exactly when remaining < 0.
C10_BudgetStatus ==
    (result.op = "track_budget" /\ FGt(ConfigGet(config), Fin(0))) =>
        /\ result.status # "no_budget"
        /\ result.total_expenses = FSum(Amounts(expenses))
        /\ result.remaining = FSub(ConfigGet(config), result.total_expenses)
        /\ result.percentage_used =
              FMul(FDiv(result.total_expenses, ConfigGet(config)), Fin(100))
        /\ (result.status = "over_budget") <=> FLt(result.remaining, Fin(0))

====
